---- MODULE Spec2Model ----
(***************************************************************************)
(* Model of the clipboard synchronisation loop of adbclipboard.py          *)
(* (ClipboardSyncManager, AdbManager) together with its environment: the   *)
(* desktop clipboard, the attached devices and each device's sentinel      *)
(* file.  The loop is cut at its external commands; the user and the      *)
(* devices act before the commands that read what they have changed.      *)
(***************************************************************************)
EXTENDS Integers, Sequences, FiniteSets, TLC

\* ---------------------------------------------------------------- bounds
MaxDevices == 2
NumTexts == 2

\* ------------------------------------------------------------- constants
CONNECTED_DEVICES_DELAY_DEFAULT == 5
NO_CONNECTED_DEVICE_DELAY_DEFAULT == 60

\* previous_clipboard = None
None == -1
\* the empty string ""
Empty == 0

\* Texts are 0..NumTexts, 0 being "".
Text == 0..NumTexts
Devices == 1..MaxDevices

\* A device's sentinel file holds a text (0: nothing but whitespace) or is
\* absent.
NoFile == -1
FileStates == {NoFile} \cup Text

\* Ordered lists of distinct devices.
DeviceLists ==
  {s \in UNION {[1..n -> Devices] : n \in 0..MaxDevices} :
      \A i, j \in DOMAIN s : i # j => s[i] # s[j]}

\* --------------------------------------------------------------- strings

\* A captured output is a sequence of tokens: the separators "\n", "\t"
\* and " " are tokens of their own, and a word that the code never looks
\* into (a device handle, a status, the header of the listing) is one
\* token.

\* str.isspace of a token
IsSpace(c) == c \in {" ", "\t", "\n"}

\* str.lstrip()
RECURSIVE lstrip(_)
lstrip(s) ==
  IF s # <<>> /\ IsSpace(Head(s)) THEN lstrip(Tail(s)) ELSE s

\* str.rstrip()
RECURSIVE rstrip(_)
rstrip(s) ==
  IF s # <<>> /\ IsSpace(s[Len(s)]) THEN rstrip(SubSeq(s, 1, Len(s) - 1)) ELSE s

\* str.strip()
strip(s) == rstrip(lstrip(s))

\* `sep in s`
Contains(s, sep) == \E i \in DOMAIN s : s[i] = sep

\* s.find(sep) + 1 and s.rfind(sep) + 1, for a sep that is in s
Find(s, sep) == CHOOSE i \in DOMAIN s : s[i] = sep /\ \A j \in 1..(i - 1) : s[j] # sep
RFind(s, sep) == CHOOSE i \in DOMAIN s : s[i] = sep /\ \A j \in (i + 1)..Len(s) : s[j] # sep

\* str.split(sep): the pieces between the separators, one piece more than
\* there are separators
RECURSIVE split(_, _)
split(s, sep) ==
  IF ~Contains(s, sep) THEN <<s>>
  ELSE LET i == Find(s, sep)
       IN <<SubSeq(s, 1, i - 1)>> \o split(SubSeq(s, i + 1, Len(s)), sep)

\* ------------------------------------------------------------ the state
VARIABLES
  pc,                  \* position of main and of sync_with_devices
  exit_code,           \* exit code of the process, None while it runs
  message,             \* what the process said when it ended
  previous_clipboard,  \* self.previous_clipboard
  devices,             \* local `devices` of the current tick
  idx,                 \* position of the for loop over devices
  current_clipboard,   \* local of _sync_clipboard_to_devices
  desktop_clipboard,   \* local of _sync_clipboard_from_devices
  has_compatible_device,
  desktop,             \* the desktop clipboard itself
  file,                \* file[d]: sentinel file of device d
  tick,                \* what the tick has done so far
  last_pushed,         \* history: text of the last push tick with a Success,
                       \* while the desktop and the device list allow (C11)
  kept,                \* history: no baseline reset, no desktop write since
  cleared,             \* history: a reset awaits its resend (C12)
  pulled,              \* history: the texts written to the desktop by pull
                       \* ticks, oldest first, while every desktop read
                       \* since has returned them and no tick has cleared
                       \* the baseline (C24)
  prev_devices,        \* history: the device list of the tick before (C25)
  applied,             \* history: the devices whose file content has been
                       \* written to the desktop and is still in the file
                       \* (C27)
  track,               \* which of the histories the run records
  fixed,               \* the device list from now on, in a run where every
                       \* command succeeds and nobody copies; <<>> in a run
                       \* where anything may happen
  call                 \* a call of an AdbManager method on its own

vars == <<pc, exit_code, message, previous_clipboard, devices, idx,
          current_clipboard,
          desktop_clipboard, has_compatible_device, desktop, file, tick,
          last_pushed, kept, cleared, pulled, prev_devices, applied, track,
          fixed, call>>

loopvars == <<pc, previous_clipboard, devices, idx, current_clipboard,
              desktop_clipboard, has_compatible_device, tick>>

histvars == <<last_pushed, kept, cleared, pulled, prev_devices, track, fixed>>

procvars == <<exit_code, message>>

\* the process and its environment: all but `call`
sysvars == <<pc, exit_code, message, previous_clipboard, devices, idx,
             current_clipboard, desktop_clipboard, has_compatible_device,
             desktop, file, tick, last_pushed, kept, cleared, pulled, prev_devices, applied,
            track, fixed>>

\* The record of one tick: every external call the tick has made.  kind is
\* "start" once the devices are listed, then "nodev", "push" or "pull".
NewTick(devs, base) ==
  [kind |-> "start", devices |-> devs, base0 |-> base,
   listing |-> "ok",    \* how the listing command ended
   reads |-> <<>>,      \* desktop texts read, in order
   pushbase |-> <<>>,   \* baseline at the time of each push
   pushes |-> <<>>,     \* <<device, text>> of each write_to_device
   pushres |-> <<>>,    \* outcome of each write_to_device
   pulls |-> <<>>,      \* device of each read_from_device
   pullres |-> <<>>,    \* <<status, data>> of each read_from_device
   deletes |-> <<>>,    \* device of each _cleanup_device_file
   writes |-> <<>>,     \* text of each write_clipboard
   sleeps |-> <<>>,     \* delay of each time.sleep
   raised |-> FALSE]    \* the tick ended in `except Exception`

\* no tick on record
NoTick == [NewTick(<<>>, None) EXCEPT !.kind = "idle"]

\* Config.connected_devices_delay / Config.no_connected_device_delay
connected_devices_delay == CONNECTED_DEVICES_DELAY_DEFAULT
no_connected_device_delay == NO_CONNECTED_DEVICE_DELAY_DEFAULT

\* time.sleep(delay), recorded in the tick
Sleep(t, delay) == [t EXCEPT !.sleeps = Append(@, delay)]

\* no method has been called on its own
NoCall == [fn |-> "none"]

\* ------------------------------------------------- AdbManager (protocol)

\* The words of the reply `am broadcast` prints, one token each: the code
\* looks for "result=" and for `data="`, reads a minus sign and digits one
\* character at a time, and ends the data at a double quote.
BROADCASTING == "Broadcasting: Intent { ... }"
COMPLETED == "Broadcast completed: "
RESULT == "result="
MINUS == "-"
COMMA == ", "
DATA == "data=\""
QUOTE == "\""
Digits == {"0", "1"}

\* the reply with this text after `result=`
Reply(rest) == <<BROADCASTING, "\n", COMPLETED, RESULT>> \o rest

\* What run_adb_command gives back for a broadcast: None (not found, timed
\* out, other execution error), a non-zero exit code, or exit code 0 with
\* a captured output
BroadcastReplies ==
  {Reply(<<MINUS, "1">>),   \* Broadcast completed: result=-1
   Reply(<<"0">>),          \* Broadcast completed: result=0
   Reply(<<>>),             \* a result= with nothing after it
   Reply(<<MINUS>>),        \* a result= followed by a minus sign and no digit
   <<BROADCASTING, "\n", COMPLETED>>}   \* no result= at all
WriteResults ==
  {[kind |-> "none", stdout |-> <<>>],
   [kind |-> "nonzero", stdout |-> Reply(<<MINUS, "1">>)]}
  \cup {[kind |-> "ok", stdout |-> o] : o \in BroadcastReplies}

\* \d* at the head of s
RECURSIVE DigitRun(_)
DigitRun(s) ==
  IF s # <<>> /\ Head(s) \in Digits THEN <<Head(s)>> \o DigitRun(Tail(s))
  ELSE <<>>

\* [-]?\d* at the head of s
SignedRun(s) ==
  IF s # <<>> /\ Head(s) = MINUS THEN <<MINUS>> \o DigitRun(Tail(s))
  ELSE DigitRun(s)

\* int() of a run of digits
RECURSIVE DigitsValue(_)
DigitsValue(ds) ==
  IF ds = <<>> THEN 0
  ELSE 10 * DigitsValue(SubSeq(ds, 1, Len(ds) - 1))
       + (IF ds[Len(ds)] = "1" THEN 1 ELSE 0)

\* int() of a sign and digits; a text without a digit is a ValueError
ValueError(g) == g = <<>> \/ g = <<MINUS>>
int(g) ==
  IF Head(g) = MINUS THEN 0 - DigitsValue(Tail(g)) ELSE DigitsValue(g)

\* group(1) of r".*\n.*result=([-]?\d*).*" matched at the start of the
\* text, "nomatch" if the pattern does not match: `.` stops at a newline,
\* so the pattern needs a second line with a `result=` in it, and the
\* greedy `.*` in front of `result=` takes the last one of that line
ResultGroup(stdout) ==
  LET lines == split(stdout, "\n") IN
  IF Len(lines) < 2 \/ ~Contains(lines[2], RESULT) THEN "nomatch"
  ELSE LET line == lines[2]
       IN SignedRun(SubSeq(line, RFind(line, RESULT) + 1, Len(line)))

\* where the `"` in front of `$` is, 0 if there is none: `$` is the end of
\* the text, or the newline that ends it
ClosingQuote(stdout) ==
  LET n == Len(stdout) IN
  IF n >= 1 /\ stdout[n] = QUOTE THEN n
  ELSE IF n >= 2 /\ stdout[n] = "\n" /\ stdout[n - 1] = QUOTE THEN n - 1
  ELSE 0

\* group(1) of r'.*\n.*data="(.*)"$' with DOTALL, "nomatch" if the pattern
\* does not match: the greedy `.*`s take the last `data="` that has a
\* newline somewhere before it and the closing quote after it
DataGroup(stdout) ==
  LET c == ClosingQuote(stdout)
      starts == {d \in 1..(c - 1) :
                   /\ stdout[d] = DATA
                   /\ \E n \in 1..(d - 1) : stdout[n] = "\n"}
  IN IF starts = {} THEN "nomatch"
     ELSE LET d == CHOOSE x \in starts : \A y \in starts : y <= x
          IN SubSeq(stdout, d + 1, c - 1)

\* _parse_broadcast_response: the Response, or status "RAISE" when int()
\* rejects the captured group
_parse_broadcast_response(stdout) ==
  LET g == ResultGroup(stdout) IN
  IF g # "nomatch" /\ g # <<>>
    THEN IF ValueError(g) THEN [status |-> "RAISE", data |-> <<>>]
         ELSE IF int(g) = 0 - 1
           THEN LET data == DataGroup(stdout)
                IN [status |-> "SUCCESS",
                    data |-> IF data # "nomatch" THEN data ELSE <<>>]
         ELSE [status |-> "ERROR", data |-> <<>>]
    ELSE [status |-> "ERROR", data |-> <<>>]

\* write_to_device: the Response it returns (status "RAISE": the exception
\* of the parser propagates)
write_to_device(result) ==
  IF result.kind # "ok"
    THEN [status |-> "ERROR", data |-> <<>>]
    ELSE _parse_broadcast_response(result.stdout)

\* The characters of a text: none for "", one token for any other text
Content(t) == IF t = Empty THEN <<>> ELSE <<ToString(t)>>

\* the text with these characters
TextOf(s) == CHOOSE t \in Text : Content(t) = s

\* The captured output of `cat` on a file holding text t: the text as it
\* is, or followed by a newline
CatOutputs(t) == {Content(t), Content(t) \o <<"\n">>}

\* what `cat` writes to stderr when it fails
NO_SUCH_FILE == <<"cat: clipboard.txt: ", "No such file or directory", "\n">>
PERMISSION_DENIED == <<"cat: clipboard.txt: ", "Permission denied", "\n">>

\* What run_adb_command gives back for `cat <file>` on a device whose
\* sentinel file is f: None, exit code 0 with the captured output, a
\* non-zero exit code with `No such file or directory` on stderr (only
\* when the file is absent), or a non-zero exit code for another reason.
ReadResults(f) ==
  {[kind |-> "none", returncode |-> 1, stderr |-> <<>>, stdout |-> <<>>],
   [kind |-> "exit", returncode |-> 1, stderr |-> PERMISSION_DENIED,
    stdout |-> <<>>]}
  \cup (IF f = NoFile
          THEN {[kind |-> "exit", returncode |-> 1, stderr |-> NO_SUCH_FILE,
                 stdout |-> <<>>]}
          ELSE {[kind |-> "exit", returncode |-> 0, stderr |-> <<>>,
                 stdout |-> o] : o \in CatOutputs(f)})

\* read_from_device without the test of line 199: the file is deleted
\* after every read with exit code 0
read_from_device_m2(result) ==
  IF result.kind = "none"
    THEN [status |-> "ERROR", data |-> Empty, cleanup |-> FALSE]
  ELSE IF /\ result.returncode # 0
          /\ result.stderr # <<>>
          /\ Contains(result.stderr, "No such file or directory")
    THEN [status |-> "SUCCESS", data |-> Empty, cleanup |-> FALSE]
  ELSE IF result.returncode # 0
    THEN [status |-> "ERROR", data |-> Empty, cleanup |-> FALSE]
  ELSE LET content == strip(result.stdout) IN
       [status |-> "SUCCESS", data |-> TextOf(content), cleanup |-> TRUE]

\* read_from_device without lines 187-189: a missing file is an error
read_from_device_m(result) ==
  IF result.kind = "none"
    THEN [status |-> "ERROR", data |-> Empty, cleanup |-> FALSE]
  ELSE IF result.returncode # 0
    THEN [status |-> "ERROR", data |-> Empty, cleanup |-> FALSE]
  ELSE LET content == strip(result.stdout) IN
       [status |-> "SUCCESS", data |-> TextOf(content),
        cleanup |-> content # <<>>]

\* read_from_device: the Response and whether _cleanup_device_file is called
read_from_device(result) ==
  IF result.kind = "none"
    THEN [status |-> "ERROR", data |-> Empty, cleanup |-> FALSE]
  ELSE IF /\ result.returncode # 0
          /\ result.stderr # <<>>
          /\ Contains(result.stderr, "No such file or directory")
    THEN [status |-> "SUCCESS", data |-> Empty, cleanup |-> FALSE]
  ELSE IF result.returncode # 0
    THEN [status |-> "ERROR", data |-> Empty, cleanup |-> FALSE]
  ELSE LET content == strip(result.stdout) IN
       [status |-> "SUCCESS", data |-> TextOf(content),
        cleanup |-> content # <<>>]

\* The handle `adb devices` prints for a device, and the device a handle
\* (a one-token string) names
Handle(d) == ToString(d)
Device(h) == CHOOSE d \in Devices : <<Handle(d)>> = h

\* The output of `adb devices`: the header line, then one line
\* `<handle>\t<status>` for each row
HEADER == "List of devices attached"
Statuses == {"device", "offline", "unauthorized"}
RECURSIVE DataLines(_)
DataLines(rows) ==
  IF rows = <<>> THEN <<>>
  ELSE <<Handle(Head(rows)[1]), "\t", Head(rows)[2], "\n">>
       \o DataLines(Tail(rows))
Listing(rows) == <<HEADER, "\n">> \o DataLines(rows)

\* the rows of a listing in which the devices of l, in this order, are all
\* in state `device`
Connected(l) == [i \in DOMAIN l |-> <<l[i], "device">>]

\* What run_adb_command gives back for `adb devices`: None (not found,
\* timed out, other execution error), a non-zero exit code (with or
\* without a listing printed before the failure), or exit code 0 with the
\* listing of the devices in state `device`; adb ends the listing with an
\* empty line.
ListingResults ==
  {[kind |-> "none", stdout |-> <<>>]}
  \cup {[kind |-> "nonzero", stdout |-> o] :
          o \in {<<>>, Listing(Connected(<<1>>))}}
  \cup {[kind |-> "ok", stdout |-> Listing(Connected(l)) \o <<"\n">>] :
          l \in DeviceLists}

\* get_connected_devices, lines 151-156: the handles of the lines
\* `<handle>\t<status>...` whose status is `device`
RECURSIVE ConnectedHandles(_)
ConnectedHandles(lines) ==
  IF lines = <<>> THEN <<>>
  ELSE LET line == Head(lines)
           rest == ConnectedHandles(Tail(lines))
       IN IF strip(line) # <<>> /\ Contains(line, "\t")
            THEN LET device_hash == split(line, "\t")[1]
                     status == split(line, "\t")[2]
                 IN IF status = <<"device">>
                      THEN <<device_hash>> \o rest ELSE rest
            ELSE rest

\* get_connected_devices without the test of the exit code (line 145)
get_connected_devices_m2(result) ==
  IF result.kind = "none" THEN <<>>
  ELSE ConnectedHandles(Tail(split(strip(result.stdout), "\n")))

\* get_connected_devices that leaves out the line after the header too
get_connected_devices_m(result) ==
  IF result.kind # "ok" THEN <<>>
  ELSE LET lines == split(strip(result.stdout), "\n")
       IN ConnectedHandles(SubSeq(lines, 3, Len(lines)))

\* get_connected_devices: [] when the listing command failed, or else the
\* handles in state `device` of the lines after the first one
get_connected_devices(result) ==
  IF result.kind # "ok" THEN <<>>
  ELSE ConnectedHandles(Tail(split(strip(result.stdout), "\n")))

\* ClipboardHandler.read_clipboard: the content, or "" when the command failed
read_clipboard(ok) == IF ok THEN desktop ELSE Empty

\* ------------------------------------------------------- CommandRunner

\* How one subprocess.run(cmd, capture_output, text, timeout, input) ends:
\* the child ran and exited with a code, or the call raised
\* FileNotFoundError (no such executable), subprocess.TimeoutExpired,
\* another Exception (PermissionError, OSError, UnicodeDecodeError of the
\* captured output ...) or KeyboardInterrupt, which is no Exception.
Raises == {"FileNotFoundError", "TimeoutExpired", "Exception",
           "KeyboardInterrupt"}
SubprocessRuns ==
  {[kind |-> "completed", returncode |-> rc, stderr |-> e] :
     rc \in {0, 1}, e \in {<<>>, NO_SUCH_FILE, PERMISSION_DENIED}}
  \cup {[kind |-> k, returncode |-> 1, stderr |-> <<>>] : k \in Raises}

\* the `context` the callers pass, as tokens
Contexts ==
  {<<"adb devices">>, <<"read from device", " ", Handle(1)>>,
   <<"write to device", " ", Handle(1)>>, <<"pbcopy">>}

\* _is_expected_failure, lines 116-121
_is_expected_failure(context, result) ==
  /\ Contains(context, "read from device")
  /\ result.stderr # <<>>
  /\ Contains(result.stderr, "No such file or directory")

\* what run_command logs for a completed child, lines 98-101
Warnings(context, result) ==
  IF result.returncode # 0 /\ ~_is_expected_failure(context, result)
    THEN <<"warning">> \o (IF result.stderr # <<>> THEN <<"warning">> ELSE <<>>)
    ELSE <<>>

\* run_command with a second try: a timeout starts the command again
RECURSIVE run_command_m(_, _)
run_command_m(context, runs) ==
  LET result == Head(runs) IN
  IF result.kind = "completed"
    THEN [status |-> "returned", value |-> result, spawned |-> 1,
          log |-> Warnings(context, result)]
  ELSE IF result.kind = "TimeoutExpired" /\ Tail(runs) # <<>>
    THEN LET again == run_command_m(context, Tail(runs))
         IN [again EXCEPT !.spawned = @ + 1]
  ELSE IF result.kind \in {"FileNotFoundError", "TimeoutExpired", "Exception"}
    THEN [status |-> "returned", value |-> [kind |-> "None"], spawned |-> 1,
          log |-> <<"error">>]
  ELSE [status |-> "raised", value |-> [kind |-> result.kind], spawned |-> 1,
        log |-> <<>>]

\* run_command, lines 73-113.  `runs` is how the first subprocess.run ends,
\* then how a second one would, and so on; the code calls subprocess.run
\* once (line 90) and so looks at the first only.  It returns the
\* CompletedProcess (line 103) or None (lines 105-113), or an exception
\* that is no Exception leaves it; `spawned` counts the subprocess.run
\* calls, `log` lists the warnings and errors logged.
run_command(context, runs) ==
  LET result == Head(runs) IN
  IF result.kind = "completed"
    THEN [status |-> "returned", value |-> result, spawned |-> 1,
          log |-> Warnings(context, result)]
  ELSE IF result.kind \in {"FileNotFoundError", "TimeoutExpired", "Exception"}
    THEN [status |-> "returned", value |-> [kind |-> "None"], spawned |-> 1,
          log |-> <<"error">>]
  ELSE [status |-> "raised", value |-> [kind |-> result.kind], spawned |-> 1,
        log |-> <<>>]

\* ------------------------------------------------- ClipboardSyncManager

\* _handle_no_devices that leaves the baseline as it was
_handle_no_devices_m(t) ==
  [prev |-> t.base0, tick |-> Sleep(t, no_connected_device_delay)]

\* _handle_no_devices
_handle_no_devices(t) ==
  [prev |-> None, tick |-> Sleep(t, no_connected_device_delay)]

\* _handle_no_compatible_devices that leaves the baseline as it was
_handle_no_compatible_devices_m(t) ==
  [prev |-> t.base0, tick |-> Sleep(t, no_connected_device_delay)]

\* _handle_no_compatible_devices
_handle_no_compatible_devices(t) ==
  [prev |-> None, tick |-> Sleep(t, no_connected_device_delay)]

\* line 349 without the comparison with the baseline
ShouldPush_m2(prev, cur) == cur # Empty

\* line 349 without `and current_clipboard`
ShouldPush_m(prev, cur) == prev # cur

\* the condition of _sync_clipboard_to_devices (line 349)
ShouldPush(prev, cur) == prev # cur /\ cur # Empty

\* line 350 left out: the baseline is not updated before the pushes
PushBaseline_m(prev, cur) == prev

\* _sync_clipboard_to_devices, line 350: the baseline of a push tick, set
\* before the first push
PushBaseline(prev, cur) == cur

\* line 381 without `device_text and`
ShouldUpdateDesktop_m(device_text, desk) == device_text # desk

\* the condition of _sync_clipboard_from_devices (line 381)
ShouldUpdateDesktop(device_text, desk) ==
  device_text # Empty /\ device_text # desk

\* lines 382-384 without the assignment of line 384
UpdateDesktopFromDevice_m(t, device_text) ==
  [prev |-> t.base0, tick |-> [t EXCEPT !.writes = Append(@, device_text)]]

\* _sync_clipboard_from_devices, lines 382-384: write the payload to the
\* desktop and make it the baseline
UpdateDesktopFromDevice(t, device_text) ==
  [prev |-> device_text, tick |-> [t EXCEPT !.writes = Append(@, device_text)]]

\* lines 335-337 without the sleep of line 337
ExceptException_m(t) == [t EXCEPT !.raised = TRUE]

\* sync_with_devices, lines 335-337: `except Exception` logs the error and
\* sleeps the short delay
ExceptException(t) ==
  Sleep([t EXCEPT !.raised = TRUE], connected_devices_delay)

\* a run in which, from the start, the device list is fixed, every command
\* succeeds and neither the user nor a device copies anything
Quiet == fixed # <<>>

\* What the three methods of AdbManager return for each way their command
\* can end: the methods are functions of that outcome alone, so each is
\* worked out once for every outcome.
ListedDevices ==
  [result \in ListingResults |-> get_connected_devices(result)]
WriteResponses ==
  [result \in WriteResults |-> write_to_device(result)]
ReadResponses ==
  [result \in UNION {ReadResults(f) : f \in FileStates} |->
     read_from_device(result)]

\* how `adb devices` can end
Listings ==
  IF Quiet
    THEN {[kind |-> "ok", stdout |-> Listing(Connected(fixed)) \o <<"\n">>]}
    ELSE ListingResults

\* whether the command of read_clipboard succeeds
ReadClipboardResults == IF Quiet THEN {TRUE} ELSE BOOLEAN

\* how the broadcast of write_to_device can end; when it succeeds the
\* device answers result=-1
Broadcasts ==
  IF Quiet THEN {[kind |-> "ok", stdout |-> Reply(<<MINUS, "1">>)]}
           ELSE WriteResults

\* how `cat <file>` can end; when it succeeds it prints the file, or says
\* that there is none
Cats(f) ==
  IF Quiet
    THEN {r \in ReadResults(f) :
            r.kind = "exit" /\ (r.returncode = 0 \/ r.stderr = NO_SUCH_FILE)}
    ELSE ReadResults(f)

\* whether `rm <file>` removed the file (when it is called at all)
CleanupResults(called) ==
  IF called THEN (IF Quiet THEN {TRUE} ELSE BOOLEAN) ELSE {FALSE}

\* whether write_clipboard took effect (when it is called at all)
WriteClipboardResults(response, desk) ==
  IF response.status = "SUCCESS" /\ ShouldUpdateDesktop(response.data, desk)
    THEN (IF Quiet THEN {TRUE} ELSE BOOLEAN) ELSE {FALSE}

\* the locals of a tick go out of scope
ResetLocals ==
  /\ idx' = 0
  /\ current_clipboard' = None
  /\ desktop_clipboard' = None
  /\ has_compatible_device' = FALSE

\* ClipboardSyncManager.__init__ (previous_clipboard = None) in front of
\* the first tick, with any desktop content and any sentinel files
Start ==
  /\ pc = "loop"
  /\ exit_code = None
  /\ message = ""
  /\ call = NoCall
  /\ previous_clipboard = None
  /\ devices = <<>>
  /\ idx = 0
  /\ current_clipboard = None
  /\ desktop_clipboard = None
  /\ has_compatible_device = FALSE
  /\ desktop \in Text
  /\ file \in [Devices -> FileStates]
  /\ tick = NoTick
  /\ last_pushed = None
  /\ kept = FALSE
  /\ cleared = FALSE
  /\ pulled = <<>>
  /\ prev_devices = <<>>
  /\ applied = {}

\* no history is recorded
Init == Start /\ track = {} /\ fixed = <<>>

\* the history of the pushes is recorded
InitPushed == Start /\ track = {"pushed"} /\ fixed = <<>>

\* the history of the baseline resets is recorded
InitCleared == Start /\ track = {"cleared"} /\ fixed = <<>>

\* the history of the desktop updates is recorded
InitPulled == Start /\ track = {"pulled"} /\ fixed = <<>>

\* the device list of the tick before is recorded
InitDevices == Start /\ track = {"devices"} /\ fixed = <<>>

\* the history of the sentinel files is recorded
InitApplied == Start /\ track = {"applied"} /\ fixed = <<>>

\* sync_with_devices, lines 318-322: list the devices; with none, clear the
\* baseline, sleep the long delay and `continue`
GetConnectedDevices ==
  /\ pc = "loop"
  /\ \E result \in Listings :
       LET handles == ListedDevices[result]
           devs == [i \in DOMAIN handles |-> Device(handles[i])]
           t0 == [NewTick(devs, previous_clipboard)
                    EXCEPT !.listing = result.kind]
       IN /\ devices' = devs
          /\ IF devs = <<>>
               THEN LET h == _handle_no_devices([t0 EXCEPT !.kind = "nodev"])
                    IN /\ previous_clipboard' = h.prev
                       /\ tick' = h.tick
                       /\ pc' = "end"
               ELSE /\ previous_clipboard' = previous_clipboard
                    /\ tick' = t0
                    /\ pc' = "to_devices"
  /\ ResetLocals
  /\ UNCHANGED <<desktop, file, histvars, applied, procvars, call>>

\* _sync_clipboard_to_devices, lines 347-350 and 367: read the desktop and
\* decide whether this is a push tick
SyncClipboardToDevices ==
  /\ pc = "to_devices"
  /\ \E ok \in ReadClipboardResults :
       LET cur == read_clipboard(ok)
           t1 == [tick EXCEPT !.reads = Append(@, cur)]
       IN IF ShouldPush(previous_clipboard, cur)
            THEN /\ previous_clipboard' = PushBaseline(previous_clipboard, cur)
                 /\ current_clipboard' = cur
                 /\ has_compatible_device' = FALSE
                 /\ idx' = 1
                 /\ tick' = [t1 EXCEPT !.kind = "push"]
                 /\ pc' = "write_to_device"
            ELSE /\ previous_clipboard' = previous_clipboard
                 /\ current_clipboard' = None
                 /\ has_compatible_device' = FALSE
                 /\ idx' = 0
                 /\ tick' = [t1 EXCEPT !.kind = "pull"]
                 /\ pc' = "from_devices"
  /\ UNCHANGED <<devices, desktop_clipboard, desktop, file, histvars, applied, procvars, call>>

\* _sync_clipboard_to_devices, lines 353-365, one device of the for loop;
\* after the last one, lines 362-365 and the `continue` of line 325.  An
\* exception of write_to_device ends the tick in lines 335-337.
WriteToDevice ==
  /\ pc = "write_to_device"
  /\ \E result \in Broadcasts :
       LET device == devices[idx]
           status == WriteResponses[result].status
           t1 == [tick EXCEPT !.pushes = Append(@, <<device, current_clipboard>>),
                              !.pushbase = Append(@, previous_clipboard),
                              !.pushres = Append(@, status)]
           compatible == has_compatible_device \/ status = "SUCCESS"
       IN IF status = "RAISE"
            THEN /\ tick' = ExceptException(t1)
                 /\ previous_clipboard' = previous_clipboard
                 /\ pc' = "end"
                 /\ ResetLocals
          ELSE IF idx < Len(devices)
            THEN /\ tick' = t1
                 /\ idx' = idx + 1
                 /\ has_compatible_device' = compatible
                 /\ pc' = "write_to_device"
                 /\ UNCHANGED <<previous_clipboard, current_clipboard, desktop_clipboard>>
          ELSE /\ IF ~compatible
                    THEN LET h == _handle_no_compatible_devices(t1)
                         IN previous_clipboard' = h.prev /\ tick' = h.tick
                    ELSE previous_clipboard' = previous_clipboard /\ tick' = t1
               /\ pc' = "end"
               /\ ResetLocals
  /\ UNCHANGED <<devices, desktop, file, histvars, applied, procvars, call>>

\* _sync_clipboard_from_devices, lines 371-372: read the desktop again
SyncClipboardFromDevices ==
  /\ pc = "from_devices"
  /\ \E ok \in ReadClipboardResults :
       LET desk == read_clipboard(ok)
       IN /\ desktop_clipboard' = desk
          /\ tick' = [tick EXCEPT !.reads = Append(@, desk)]
  /\ has_compatible_device' = FALSE
  /\ idx' = 1
  /\ pc' = "read_from_device"
  /\ UNCHANGED <<previous_clipboard, devices, current_clipboard, desktop,
                 file, histvars, applied, procvars, call>>

\* _sync_clipboard_from_devices, lines 374-385, one device of the for loop
\* (read_from_device with its cleanup, then the desktop update); after the
\* last one, lines 387-390 and line 330
ReadFromDevice ==
  /\ pc = "read_from_device"
  /\ \E result \in Cats(file[devices[idx]]) :
     \E removed \in CleanupResults(ReadResponses[result].cleanup),
        written \in WriteClipboardResults(ReadResponses[result], desktop_clipboard) :
       LET device == devices[idx]
           response == ReadResponses[result]
           t1 == [tick EXCEPT !.pulls = Append(@, device),
                              !.pullres = Append(@, <<response.status, response.data>>),
                              !.deletes = IF response.cleanup
                                            THEN Append(@, device) ELSE @]
           compatible == has_compatible_device \/ response.status = "SUCCESS"
       IN /\ file' = IF response.cleanup /\ removed
                       THEN [file EXCEPT ![device] = NoFile] ELSE file
          /\ IF response.status = "SUCCESS"
                  /\ ShouldUpdateDesktop(response.data, desktop_clipboard)
               THEN /\ LET u == UpdateDesktopFromDevice(t1, response.data)
                       IN /\ previous_clipboard' = u.prev
                          /\ tick' = u.tick
                    /\ desktop' = IF written THEN response.data ELSE desktop
                    /\ pc' = "end"
                    /\ ResetLocals
             ELSE IF idx < Len(devices)
               THEN /\ tick' = t1
                    /\ idx' = idx + 1
                    /\ has_compatible_device' = compatible
                    /\ pc' = "read_from_device"
                    /\ UNCHANGED <<previous_clipboard, current_clipboard,
                                   desktop_clipboard, desktop>>
             ELSE /\ LET h == IF ~compatible
                                THEN _handle_no_compatible_devices(t1)
                                ELSE [prev |-> previous_clipboard, tick |-> t1]
                     IN /\ previous_clipboard' = h.prev
                        /\ tick' = Sleep(h.tick, connected_devices_delay)
                  /\ pc' = "end"
                  /\ desktop' = desktop
                  /\ ResetLocals
          /\ applied' =
               IF "applied" \notin track THEN applied
               ELSE IF file'[device] = NoFile THEN applied \ {device}
               ELSE IF /\ response.status = "SUCCESS"
                       /\ ShouldUpdateDesktop(response.data, desktop_clipboard)
                       /\ written
                 THEN applied \cup {device}
               ELSE applied
  /\ UNCHANGED <<devices, histvars, procvars, call>>

\* the tick on record pushed a text and some device returned Success
PushedWithSuccess ==
  /\ tick.kind = "push"
  /\ \E i \in DOMAIN tick.pushres : tick.pushres[i] = "SUCCESS"

\* the tick on record had no device, or no compatible one: one of the two
\* handlers has cleared the baseline and slept the long delay
BaselineCleared ==
  \E k \in DOMAIN tick.sleeps : tick.sleeps[k] = no_connected_device_delay

\* the tick on record had devices and read a non-empty desktop text
ReadNonEmpty ==
  /\ tick.devices # <<>>
  /\ tick.reads # <<>>
  /\ tick.reads[1] # Empty

\* what the ticks to come have to know of the ticks so far (history):
\* last_pushed is the text of the last push tick with a Success, forgotten
\* when the desktop content changes or the device list is empty; kept says
\* that since that push no tick has cleared the baseline or written to the
\* desktop; cleared says that a tick has cleared the baseline and no tick
\* with devices has read a non-empty desktop text since.
Remember ==
  /\ last_pushed' =
       IF "pushed" \notin track THEN None
       ELSE IF PushedWithSuccess THEN tick.reads[1]
       ELSE IF tick.devices = <<>> \/ desktop # last_pushed THEN None
       ELSE last_pushed
  /\ kept' =
       IF "pushed" \notin track THEN FALSE
       ELSE IF PushedWithSuccess THEN TRUE
       ELSE /\ last_pushed' # None
            /\ kept
            /\ ~BaselineCleared
            /\ tick.writes = <<>>
  /\ cleared' =
       IF "cleared" \notin track THEN FALSE
       ELSE IF BaselineCleared THEN TRUE
       ELSE IF ReadNonEmpty THEN FALSE
       ELSE cleared
  /\ pulled' =
       IF "pulled" \notin track THEN <<>>
       ELSE LET read(t) == \A i \in DOMAIN tick.reads : tick.reads[i] = t
                still == IF BaselineCleared THEN <<>>
                         ELSE SelectSeq(pulled, read)
            IN IF tick.writes = <<>> THEN still
               ELSE LET other(t) == t # tick.writes[1]
                    IN Append(SelectSeq(still, other), tick.writes[1])
  /\ prev_devices' = IF "devices" \notin track THEN <<>> ELSE tick.devices
  /\ track' = track
  /\ fixed' = fixed

\* sync_with_devices, line 316: the tick is over (a `continue`, or the end
\* of the loop body), the next one starts
Continue ==
  /\ pc = "end"
  /\ pc' = "loop"
  /\ devices' = <<>>
  /\ tick' = NoTick
  /\ Remember
  /\ UNCHANGED <<previous_clipboard, idx, current_clipboard,
                 desktop_clipboard, has_compatible_device, desktop, file,
                 applied, procvars, call>>

\* sync_with_devices, lines 332-334: an interrupt ends the loop, whatever
\* the tick was doing; the tick in progress is abandoned, main returns and
\* the process exits with code 0.  An interrupt outside the `try` of the
\* loop (in the sleep of line 337, or in main before the loop) reaches
\* main, lines 495-497: sys.exit(0).
Interrupt ==
  /\ pc # "done"
  /\ pc' = "done"
  /\ exit_code' = 0
  /\ message' = "interrupted"
  /\ call' = call
  /\ devices' = <<>>
  /\ tick' = NoTick
  /\ ResetLocals
  /\ last_pushed' = None
  /\ kept' = FALSE
  /\ cleared' = FALSE
  /\ pulled' = <<>>
  /\ prev_devices' = <<>>
  /\ applied' = {}
  /\ UNCHANGED <<previous_clipboard, desktop, file, track, fixed>>

\* ----------------------------------------------------------------- main

\* platform.system(); "Other" is any platform without a clipboard handler
Systems == {"Darwin", "Linux", "Windows", "Other"}

\* What run_command gives back for a dependency check (`adb version`,
\* `xclip -version`, `powershell -Command "echo test"`): None, a non-zero
\* exit code, or exit code 0.
DependencyResults == {"none", "nonzero", "zero"}

\* check_dependency without the test of the exit code
check_dependency_m(result) == result # "none"

\* AdbManager.check_dependency
check_dependency(result) == result # "none" /\ result = "zero"

\* ClipboardHandler.check_dependencies of the handler of the platform:
\* always True on macOS, the outcome of the check command elsewhere
check_dependencies(system, result) ==
  IF system = "Darwin" THEN TRUE ELSE result # "none" /\ result = "zero"

\* the positions of sync_with_devices
LoopPcs == {"loop", "to_devices", "write_to_device", "from_devices",
            "read_from_device", "end"}

\* logger.error(msg) or print(msg), then sys.exit(code)
Exit(code, msg) ==
  /\ pc' = "done"
  /\ exit_code' = code
  /\ message' = msg
  /\ call' = call
  /\ UNCHANGED <<previous_clipboard, devices, idx, current_clipboard,
                 desktop_clipboard, has_compatible_device, desktop, file,
                 tick, histvars, applied>>

\* main, lines 474-480 and 498-500: the components are created; on a
\* platform without a handler create_clipboard_handler raises, which is a
\* fatal error
CreateComponents(system) ==
  /\ pc = "main"
  /\ IF system = "Other"
       THEN Exit(1, "Fatal error")
       ELSE /\ pc' = "check_adb"
            /\ UNCHANGED <<procvars, call, previous_clipboard, devices, idx,
                           current_clipboard, desktop_clipboard,
                           has_compatible_device, desktop, file, tick,
                           histvars, applied>>

\* main, lines 483-485: the bridge tool is checked
CheckAdb(result) ==
  /\ pc = "check_adb"
  /\ IF ~check_dependency(result)
       THEN Exit(1, "ADB not found")
       ELSE /\ pc' = "check_clipboard"
            /\ UNCHANGED <<procvars, call, previous_clipboard, devices, idx,
                           current_clipboard, desktop_clipboard,
                           has_compatible_device, desktop, file, tick,
                           histvars, applied>>

\* main, lines 487-493: the clipboard utility is checked; then the sync
\* manager is constructed and its loop is entered
CheckClipboard(system, result) ==
  /\ pc = "check_clipboard"
  /\ IF ~check_dependencies(system, result)
       THEN Exit(1, "Required clipboard dependencies not found")
       ELSE /\ pc' = "loop"
            /\ UNCHANGED <<procvars, call, previous_clipboard, devices, idx,
                           current_clipboard, desktop_clipboard,
                           has_compatible_device, desktop, file, tick,
                           histvars, applied>>

\* ------------------------------------------------------ the environment

\* the user copies a text on the desktop (or clears the clipboard).  The
\* loop looks at the desktop in its two reads only, and a copy made at any
\* other moment is either overwritten by the write of a tick or still
\* there at the next read: the copies are taken just before the reads.
UserCopy ==
  /\ pc \in {"to_devices", "from_devices"}
  /\ ~Quiet
  /\ \E t \in Text : t # desktop /\ desktop' = t
  /\ last_pushed' = None
  /\ kept' = FALSE
  /\ UNCHANGED <<loopvars, file, cleared, pulled, prev_devices, applied,
                 track, fixed, procvars, call>>

\* the companion app of a device writes a new value to its sentinel file.
\* The loop looks at the file of a device only in ReadFromDevice of that
\* device, so a write at any moment shows to the loop as a write just
\* before that read: the writes are taken there.
DeviceCopy ==
  /\ pc = "read_from_device"
  /\ ~Quiet
  /\ \E t \in Text :
       /\ t # file[devices[idx]]
       /\ file' = [file EXCEPT ![devices[idx]] = t]
  /\ applied' = applied \ {devices[idx]}
  /\ UNCHANGED <<loopvars, desktop, histvars, procvars, call>>

Next ==
  \/ GetConnectedDevices
  \/ Continue
  \/ SyncClipboardToDevices
  \/ WriteToDevice
  \/ SyncClipboardFromDevices
  \/ ReadFromDevice
  \/ Interrupt
  \/ UserCopy
  \/ DeviceCopy

Spec == Init /\ [][Next]_vars

\* the process in front of main: nothing is constructed yet
InitMain ==
  /\ pc = "main"
  /\ exit_code = None
  /\ message = ""
  /\ call = NoCall
  /\ previous_clipboard = None
  /\ devices = <<>>
  /\ idx = 0
  /\ current_clipboard = None
  /\ desktop_clipboard = None
  /\ has_compatible_device = FALSE
  /\ desktop \in Text
  /\ file \in [Devices -> FileStates]
  /\ tick = NoTick
  /\ last_pushed = None
  /\ kept = FALSE
  /\ cleared = FALSE
  /\ pulled = <<>>
  /\ prev_devices = <<>>
  /\ applied = {}
  /\ track = {}
  /\ fixed = <<>>

NextMain ==
  \/ \E system \in Systems : CreateComponents(system)
  \/ \E result \in DependencyResults : CheckAdb(result)
  \/ \E system \in Systems \ {"Other"}, result \in DependencyResults :
       CheckClipboard(system, result)
  \/ Next

\* the whole process: main, then the loop
SpecMain == InitMain /\ [][NextMain]_vars

\* ------------------------------------------- the methods of AdbManager

\* the rows of the listings given to get_connected_devices: up to
\* MaxDevices data lines, with any device and any status on each
RowLists ==
  UNION {[1..n -> Devices \X Statuses] : n \in 0..MaxDevices}

\* What run_adb_command gives back for `adb devices`, over all listings:
\* the listing ends after its last line or with an empty line
AllListingResults ==
  {[kind |-> "none", stdout |-> <<>>, rows |-> <<>>]}
  \cup {[kind |-> k, stdout |-> Listing(rows) \o tail, rows |-> rows] :
          k \in {"nonzero", "ok"}, rows \in RowLists,
          tail \in {<<>>, <<"\n">>}}

\* get_connected_devices is called with the listing command ending in any
\* of these ways
CallGetConnectedDevices ==
  /\ call = NoCall
  /\ \E result \in AllListingResults :
       call' = [fn |-> "get_connected_devices", arg |-> result,
                ret |-> get_connected_devices(result)]
  /\ UNCHANGED sysvars

\* an AdbManager in front of a call; the desktop and the devices have no
\* part in what a method returns
InitAdbManager ==
  /\ Start
  /\ desktop = Empty
  /\ file = [d \in Devices |-> NoFile]
  /\ track = {}
  /\ fixed = <<>>

\* What run_adb_command gives back for `cat <file>`, over all outcomes:
\* None, or an exit code with any stderr and the text of `text` on stdout,
\* bare or with whitespace around it
AllReadResults ==
  {[kind |-> "none", returncode |-> 1, stderr |-> <<>>, stdout |-> <<>>,
    text |-> Empty]}
  \cup {[kind |-> "exit", returncode |-> rc, stderr |-> e,
         stdout |-> before \o Content(t) \o after, text |-> t] :
          rc \in {0, 1}, e \in {<<>>, NO_SUCH_FILE, PERMISSION_DENIED},
          t \in Text, before \in {<<>>, <<" ">>},
          after \in {<<>>, <<"\n">>}}

\* read_from_device is called with `cat` ending in any of these ways
CallReadFromDevice ==
  /\ call = NoCall
  /\ \E result \in AllReadResults :
       call' = [fn |-> "read_from_device", arg |-> result,
                ret |-> read_from_device(result)]
  /\ UNCHANGED sysvars

\* What can follow `result=` in a reply, with the payload it carries in
\* its data field: nothing, a data field, a data field on a line of its
\* own, a payload that looks like a result, a payload of two lines; each
\* with or without a newline at the end
Rests ==
  LET fields == {[text |-> <<>>, payload |-> <<>>],
                 [text |-> <<COMMA, DATA, "x", QUOTE>>, payload |-> <<"x">>],
                 [text |-> <<"\n", DATA, "x", QUOTE>>, payload |-> <<"x">>],
                 [text |-> <<COMMA, DATA, RESULT, "0", QUOTE>>,
                  payload |-> <<RESULT, "0">>],
                 [text |-> <<COMMA, DATA, "x", "\n", "y", QUOTE>>,
                  payload |-> <<"x", "\n", "y">>]}
  IN fields \cup {[text |-> f.text \o <<"\n">>, payload |-> f.payload] :
                    f \in fields}

\* a sign or none, and up to two digits
Groups ==
  {sign \o ds : sign \in {<<>>, <<MINUS>>},
                ds \in {<<>>} \cup {<<a>> : a \in Digits}
                       \cup {<<a, b>> : a \in Digits, b \in Digits}}

\* What run_adb_command gives back for a broadcast, over all outcomes:
\* None, or an exit code with a reply of two lines, or with a reply whose
\* result is on the only line, on the third line or on no line, or on the
\* first line as well
AllWriteResults ==
  {[kind |-> "none", stdout |-> <<>>, payload |-> <<>>]}
  \cup {[kind |-> k, stdout |-> Reply(g \o r.text), payload |-> r.payload] :
          k \in {"nonzero", "ok"}, g \in Groups, r \in Rests}
  \cup {[kind |-> "ok", stdout |-> o, payload |-> <<>>] :
          o \in {<<>>,
                 <<BROADCASTING, "\n", COMPLETED>>,
                 <<COMPLETED, RESULT, MINUS, "1">>,
                 <<BROADCASTING, "\n", "Warning", "\n",
                   COMPLETED, RESULT, MINUS, "1">>,
                 <<RESULT, "0", "\n", COMPLETED, RESULT, MINUS, "1">>}}

\* write_to_device is called with the broadcast ending in any of these ways
CallWriteToDevice ==
  /\ call = NoCall
  /\ \E result \in AllWriteResults :
       call' = [fn |-> "write_to_device", arg |-> result,
                ret |-> write_to_device(result)]
  /\ UNCHANGED sysvars

\* run_command is called with any context; the child ends in any way, and
\* so would a second one
CallRunCommand ==
  /\ call = NoCall
  /\ \E context \in Contexts, first \in SubprocessRuns, second \in SubprocessRuns :
       call' = [fn |-> "run_command",
                arg |-> [context |-> context, runs |-> <<first, second>>],
                ret |-> run_command(context, <<first, second>>)]
  /\ UNCHANGED sysvars

NextAdbManager ==
  \/ CallRunCommand
  \/ CallGetConnectedDevices
  \/ CallReadFromDevice
  \/ CallWriteToDevice

\* the methods of AdbManager, each called on its own, once, with any
\* outcome of its commands
SpecAdbManager == InitAdbManager /\ [][NextAdbManager]_vars

\* the same loop, with the history of its pushes
SpecPushed == InitPushed /\ [][Next]_vars

\* the same loop, with the history of its baseline resets
SpecCleared == InitCleared /\ [][Next]_vars

\* the same loop, with the history of its desktop updates
SpecPulled == InitPulled /\ [][Next]_vars

\* the same loop, with the device list of the tick before
SpecDevices == InitDevices /\ [][Next]_vars

\* the same loop, with the history of the sentinel files
SpecApplied == InitApplied /\ [][Next]_vars

\* The loop between two ticks, at the point from which the device list is
\* fixed and not empty, every command succeeds and nobody copies: any
\* baseline, desktop content and sentinel files the ticks before can have
\* left.  The desktop updates from here on are recorded.
InitQuiet ==
  /\ pc = "loop"
  /\ exit_code = None
  /\ message = ""
  /\ call = NoCall
  /\ previous_clipboard \in {None} \cup (Text \ {Empty})
  /\ devices = <<>>
  /\ idx = 0
  /\ current_clipboard = None
  /\ desktop_clipboard = None
  /\ has_compatible_device = FALSE
  /\ desktop \in Text
  /\ file \in [Devices -> FileStates]
  /\ tick = NoTick
  /\ last_pushed = None
  /\ kept = FALSE
  /\ cleared = FALSE
  /\ pulled = <<>>
  /\ prev_devices = <<>>
  /\ applied = {}
  /\ track = {"pulled"}
  /\ fixed \in DeviceLists \ {<<>>}

\* the steps of the loop; no interrupt, no copy
NextQuiet ==
  \/ GetConnectedDevices
  \/ Continue
  \/ SyncClipboardToDevices
  \/ WriteToDevice
  \/ SyncClipboardFromDevices
  \/ ReadFromDevice

\* The loop from that point on.  `while True` (line 316) takes its next
\* step whenever it has one: every command has a timeout and every sleep
\* ends.
SpecQuiet == InitQuiet /\ [][NextQuiet]_vars /\ WF_vars(NextQuiet)

TypeOK ==
  /\ pc \in {"main", "check_adb", "check_clipboard", "done"} \cup LoopPcs
  /\ exit_code \in {None, 0, 1}
  /\ message \in {"", "interrupted", "Fatal error", "ADB not found",
                  "Required clipboard dependencies not found"}
  /\ previous_clipboard \in {None} \cup Text
  /\ devices \in DeviceLists
  /\ idx \in 0..MaxDevices
  /\ desktop \in Text
  /\ file \in [Devices -> FileStates]
  /\ last_pushed \in {None} \cup Text
  /\ kept \in BOOLEAN
  /\ cleared \in BOOLEAN
  /\ pulled \in UNION {[1..n -> Text \ {Empty}] : n \in 0..NumTexts}
  /\ prev_devices \in DeviceLists
  /\ applied \subseteq Devices
  /\ track \in {{}, {"pushed"}, {"cleared"}, {"pulled"}, {"devices"},
                 {"applied"}}
  /\ fixed \in DeviceLists
  /\ Quiet => tick.devices \in {<<>>, fixed}
  /\ call.fn \in {"none", "run_command", "get_connected_devices",
                 "read_from_device", "write_to_device"}

\* ------------------------------------------------------------ properties

\* the tick on record has run to its end
TickEnded == pc = "end"

\* some sleep of the tick was the long delay
SleptLong ==
  \E k \in DOMAIN tick.sleeps : tick.sleeps[k] = no_connected_device_delay

\* the last sleep of the tick was the short delay
SleptShortAtEnd ==
  /\ tick.sleeps # <<>>
  /\ tick.sleeps[Len(tick.sleeps)] = connected_devices_delay

\* the i-th pull of the tick returned Success with a payload to apply
PulledNew(i) ==
  /\ tick.pullres[i][1] = "SUCCESS"
  /\ tick.pullres[i][2] # Empty
  /\ tick.pullres[i][2] # tick.reads[2]

\* the i-th pull of the tick returned Success with nothing to apply
PulledNothing(i) ==
  /\ tick.pullres[i][1] = "SUCCESS"
  /\ tick.pullres[i][2] = Empty \/ tick.pullres[i][2] = tick.reads[2]

\* every pull of the tick returned Error
AllPullsError == \A i \in DOMAIN tick.pullres : tick.pullres[i][1] = "ERROR"

\* C1: a tick whose device list is empty clears the baseline, sleeps
\* no_connected_device_delay and is over (the loop goes back to its top),
\* without a desktop read, push, pull, file delete or desktop write.
C1_NoDevicesTick ==
  (tick.kind # "idle" /\ tick.devices = <<>>) =>
    /\ tick.kind = "nodev"
    /\ pc = "end"
    /\ previous_clipboard = None
    /\ tick.sleeps = <<no_connected_device_delay>>
    /\ tick.reads = <<>>
    /\ tick.pushes = <<>>
    /\ tick.pulls = <<>>
    /\ tick.deletes = <<>>
    /\ tick.writes = <<>>

\* a tick without devices that started with a known baseline
C1_Witness ==
  /\ TickEnded
  /\ tick.devices = <<>>
  /\ tick.base0 # None

\* C2: on a tick with devices whose desktop read is non-empty and differs
\* from the baseline, the baseline is that text at every push, the pushes go
\* to the devices of the list in order with that text, once each, every
\* device has been pushed when the tick ends, and the tick pulls, deletes
\* and writes nothing.
C2_PushTick ==
  (/\ tick.devices # <<>>
   /\ tick.reads # <<>>
   /\ tick.reads[1] # Empty
   /\ tick.reads[1] # tick.base0) =>
    /\ tick.kind = "push"
    /\ Len(tick.pushes) <= Len(tick.devices)
    /\ \A i \in DOMAIN tick.pushes :
         /\ tick.pushes[i] = <<tick.devices[i], tick.reads[1]>>
         /\ tick.pushbase[i] = tick.reads[1]
    /\ tick.pulls = <<>>
    /\ tick.deletes = <<>>
    /\ tick.writes = <<>>
    /\ pc = "end" => Len(tick.pushes) = Len(tick.devices)

\* The push tick apart from the exception: C2 holds of every tick in which
\* no push has raised.
PushTickUnlessRaised == tick.raised \/ C2_PushTick

\* C3: in a pull tick the devices are pulled in list order, and the first
\* pull that returns Success with a non-empty payload other than the
\* desktop content is the last of the tick: the payload is written to the
\* desktop and is the baseline, the tick is over, and only pulled devices
\* had their file deleted.
C3_FirstNewPayloadEndsTick ==
  tick.kind = "pull" =>
    /\ Len(tick.pulls) <= Len(tick.devices)
    /\ \A i \in DOMAIN tick.pulls : tick.pulls[i] = tick.devices[i]
    /\ \A i \in DOMAIN tick.pullres :
         PulledNew(i) =>
           /\ i = Len(tick.pulls)
           /\ pc = "end"
           /\ tick.writes = <<tick.pullres[i][2]>>
           /\ previous_clipboard = tick.pullres[i][2]
    /\ \A j \in DOMAIN tick.deletes :
         \E i \in DOMAIN tick.pulls : tick.pulls[i] = tick.deletes[j]

\* the first of two devices had a new payload while the second one had a
\* value pending too
C3_Witness ==
  /\ TickEnded
  /\ tick.kind = "pull"
  /\ Len(tick.devices) = 2
  /\ Len(tick.pulls) = 1
  /\ PulledNew(1)
  /\ tick.base0 # tick.pullres[1][2]
  /\ file[tick.devices[2]] \notin {NoFile, Empty}

\* C4: no push carries an empty text or the text the baseline held when the
\* tick started; when the desktop read is empty or equal to the baseline,
\* nothing is pushed, the baseline is as it was when the pull step starts,
\* and the tick goes on as a pull tick.
C4_NoPushOfEmptyOrUnchanged ==
  /\ \A i \in DOMAIN tick.pushes :
       /\ tick.pushes[i][2] # Empty
       /\ tick.pushes[i][2] # tick.base0
  /\ (/\ tick.reads # <<>>
      /\ tick.reads[1] = Empty \/ tick.reads[1] = tick.base0) =>
       /\ tick.kind = "pull"
       /\ tick.pushes = <<>>
       /\ pc \in {"from_devices", "read_from_device", "end"}
       /\ pc \in {"from_devices", "read_from_device"} =>
            previous_clipboard = tick.base0
       /\ pc = "end" => tick.pulls # <<>>

\* a tick that read an empty desktop while the baseline was unknown, and
\* went on to pull
C4_Witness ==
  /\ TickEnded
  /\ tick.reads # <<>>
  /\ tick.reads[1] = Empty
  /\ tick.base0 = None
  /\ tick.pulls # <<>>

\* C5: in a pull tick, a pull that returns Success with an empty payload or
\* with the desktop content writes nothing to the desktop and leaves the
\* baseline alone, the device counts as compatible (the baseline is not
\* cleared, the long delay is not slept) and the loop goes on to the next
\* device.
C5_NothingToApply ==
  tick.kind = "pull" =>
    \A i \in DOMAIN tick.pullres :
      PulledNothing(i) =>
        /\ i = Len(tick.pullres) => tick.writes = <<>>
        /\ tick.writes = <<>> => previous_clipboard = tick.base0
        /\ pc = "read_from_device" => has_compatible_device
        /\ ~SleptLong
        /\ i < Len(tick.devices) =>
             \/ Len(tick.pulls) > i
             \/ pc = "read_from_device" /\ idx = i + 1

\* the first device returned the desktop content, the second one an error
C5_Witness ==
  /\ TickEnded
  /\ tick.kind = "pull"
  /\ Len(tick.pullres) = 2
  /\ PulledNothing(1)
  /\ tick.pullres[1][2] # Empty
  /\ tick.pullres[2][1] = "ERROR"
  /\ tick.base0 # None

\* C6: a pull tick that ends without a desktop update has pulled every
\* device; the long delay is slept exactly when every pull returned Error,
\* and then the baseline is unknown; otherwise the baseline is as it was.
C6_ClearedIffAllError ==
  (TickEnded /\ tick.kind = "pull" /\ tick.writes = <<>>) =>
    /\ Len(tick.pullres) = Len(tick.devices)
    /\ AllPullsError <=> SleptLong
    /\ AllPullsError => previous_clipboard = None
    /\ ~AllPullsError => previous_clipboard = tick.base0

\* two devices, both pulls Error, the baseline was known
C6_Witness ==
  /\ TickEnded
  /\ tick.kind = "pull"
  /\ Len(tick.pullres) = 2
  /\ AllPullsError
  /\ tick.base0 # None

\* C7: a pull tick in which no device is compatible clears the baseline and
\* its only sleep is no_connected_device_delay.
C7_OnlyLongSleep ==
  (TickEnded /\ tick.kind = "pull" /\ tick.writes = <<>> /\ AllPullsError) =>
    /\ previous_clipboard = None
    /\ tick.sleeps = <<no_connected_device_delay>>

\* C8: a push tick in which no device returned Success clears the baseline,
\* sleeps no_connected_device_delay once and nothing else, and pulls from
\* no device.
C8_PushWithoutSuccess ==
  (/\ TickEnded
   /\ tick.kind = "push"
   /\ \A i \in DOMAIN tick.pushres : tick.pushres[i] # "SUCCESS") =>
    /\ previous_clipboard = None
    /\ tick.sleeps = <<no_connected_device_delay>>
    /\ tick.pulls = <<>>

\* C9: a tick with devices ends with a connected_devices_delay sleep exactly
\* when it made no push and no desktop update; a tick with a successful
\* push or a desktop update does not sleep at all.
C9_ShortSleepIffNoUpdate ==
  (TickEnded /\ tick.devices # <<>>) =>
    /\ SleptShortAtEnd <=> (tick.pushes = <<>> /\ tick.writes = <<>>)
    /\ (\/ \E i \in DOMAIN tick.pushres : tick.pushres[i] = "SUCCESS"
        \/ tick.writes # <<>>) => tick.sleeps = <<>>

\* The same apart from the exception: C8 and C9 hold of every tick in which
\* no push has raised.
SleepsUnlessRaised ==
  tick.raised \/ (C8_PushWithoutSuccess /\ C9_ShortSleepIffNoUpdate)

\* a tick with devices in which the desktop content is unchanged (every
\* read returns the text of the baseline, or the empty text) and no device
\* has data (every pull returns Error or an empty payload)
UnchangedTick ==
  /\ TickEnded
  /\ tick.devices # <<>>
  /\ \A k \in DOMAIN tick.reads :
       /\ tick.reads[k] = tick.reads[1]
       /\ tick.reads[k] = tick.base0 \/ tick.reads[k] = Empty
  /\ \A i \in DOMAIN tick.pullres : tick.pullres[i][2] = Empty

\* what C10 says of such a tick
NothingDone ==
  /\ tick.pushes = <<>>
  /\ tick.writes = <<>>
  /\ previous_clipboard = tick.base0
  /\ tick.sleeps = <<connected_devices_delay>>

\* C10 as stated: a tick with devices in which the desktop content is
\* unchanged and no device produces data pushes and writes nothing, leaves
\* the baseline alone and sleeps the short delay.
C10_AsStated == UnchangedTick => NothingDone

\* the tick pulled every device and every pull returned Error
NoDeviceCompatible ==
  /\ Len(tick.pullres) = Len(tick.devices)
  /\ AllPullsError

\* C10, amended: ... unless every pull of the tick returned Error.  The
\* baseline is then the same at the start of the next tick, so the same
\* holds of every tick of a run.
C10_Idempotent ==
  (UnchangedTick /\ ~NoDeviceCompatible) => NothingDone

\* two devices, one without a file and one that failed, with a desktop text
\* equal to the baseline
C10_Witness ==
  /\ UnchangedTick
  /\ tick.reads[1] # Empty
  /\ Len(tick.pullres) = 2
  /\ tick.pullres[1][1] = "ERROR"
  /\ tick.pullres[2][1] = "SUCCESS"

\* no push of the tick on record carries the text t
NotPushed(t) == \A i \in DOMAIN tick.pushes : tick.pushes[i][2] # t

\* C11 as stated: once a text has been pushed in a tick in which a device
\* returned Success, no later tick pushes that text as long as the desktop
\* content has not changed and the device list has not been empty.
C11_AsStated == last_pushed # None => NotPushed(last_pushed)

\* C11, amended: ... as long as, besides, no tick since has found every
\* device incompatible (which clears the baseline) and no tick since has
\* taken a new payload from a device.  The baseline is then still the text
\* that was pushed.
C11_NoDuplicatePush ==
  (last_pushed # None /\ kept) =>
    /\ NotPushed(last_pushed)
    /\ tick.kind # "idle" => tick.base0 = last_pushed

\* a tick after a push with a Success: the desktop still holds the text,
\* two devices are listed, and the tick pulls them instead of pushing
C11_Witness ==
  /\ TickEnded
  /\ last_pushed # None
  /\ kept
  /\ ~cleared
  /\ tick.kind = "pull"
  /\ tick.reads[1] = last_pushed
  /\ Len(tick.pullres) = 2

\* the tick on record is a push tick that has pushed the text it read to
\* the devices of the list, in order, and to all of them when it is over
PushedToEveryDevice ==
  /\ tick.kind = "push"
  /\ \A i \in DOMAIN tick.pushes :
       tick.pushes[i] = <<tick.devices[i], tick.reads[1]>>
  /\ pc = "end" => Len(tick.pushes) = Len(tick.devices)

\* C12: after a tick that cleared the baseline (no device, or no compatible
\* device), the first tick that has devices and reads a non-empty desktop
\* text is a push tick that pushes that text to every listed device.
C12_ResendAfterReset == (cleared /\ ReadNonEmpty) => PushedToEveryDevice

\* The resend apart from the exception: C12 holds of every tick in which no
\* push has raised, when the baseline is still unknown at its start (no
\* pull tick in between has taken a payload from a device).
ResendUnlessRaised ==
  (cleared /\ ReadNonEmpty /\ tick.base0 = None /\ ~tick.raised) =>
    PushedToEveryDevice

\* The other way for the resend not to happen (a reachable state): a pull
\* tick in between read an empty desktop and took a payload from a device,
\* which is now the baseline and the desktop text; the first tick that
\* reads a non-empty text reads that payload and is a pull tick again.
PayloadBeforeResend ==
  /\ cleared
  /\ ReadNonEmpty
  /\ tick.base0 = tick.reads[1]
  /\ tick.kind = "pull"

\* the tick on record wrote a payload to the desktop and the write did not
\* take effect (the tick is over: the desktop is as the write left it)
WriteFailed ==
  /\ TickEnded
  /\ tick.writes # <<>>
  /\ desktop # tick.writes[1]

\* C13: a desktop write that does not take effect loses nothing: when the
\* tick is over, the payload is still in a sentinel file, from where a
\* later tick can pull it and apply it to the desktop again.
C13_FailedWriteNotLost ==
  WriteFailed => \E d \in Devices : file[d] = tick.writes[1]

\* C14: an exception inside a tick ends the tick with one sleep of
\* connected_devices_delay; the next step of the loop is the start of a
\* new tick, with the baseline as the exception left it; and the loop
\* ends by no step other than an interrupt.
C14_ExceptionCaught ==
  [][/\ tick'.raised =>
          /\ pc' = "end"
          /\ tick'.sleeps = <<connected_devices_delay>>
     /\ (tick.raised /\ pc' # "done") =>
          /\ pc' = "loop"
          /\ previous_clipboard' = previous_clipboard
     /\ pc' = "done" => Interrupt]_vars

\* the push to the second of two devices has raised, after a Success of the
\* first one
C14_Witness ==
  /\ TickEnded
  /\ tick.raised
  /\ tick.pushres = <<"SUCCESS", "RAISE">>

\* C15: when the check of the bridge tool or of the clipboard utility fails
\* (the command did not run, or ended with a non-zero exit code), the
\* process exits with code 1 at once, without entering the loop; an
\* interrupt while the loop runs ends the loop and the process exits with
\* code 0; and an exit is the end: no step follows it.
C15_StartupShutdown ==
  [][/\ (\E result \in {"none", "nonzero"} : CheckAdb(result)) =>
          (pc' = "done" /\ exit_code' = 1)
     /\ (\E system \in {"Linux", "Windows"}, result \in {"none", "nonzero"} :
           CheckClipboard(system, result)) =>
          (pc' = "done" /\ exit_code' = 1)
     /\ (pc \in LoopPcs /\ Interrupt) => (pc' = "done" /\ exit_code' = 0)
     /\ pc' \in LoopPcs => exit_code' = None
     /\ pc # "done"]_vars

\* the clipboard utility was missing: the process has exited with code 1
C15_Witness ==
  /\ pc = "done"
  /\ exit_code = 1
  /\ message = "Required clipboard dependencies not found"

\* the handles of the rows in state `device`, in the order of the rows
RECURSIVE HandlesInStateDevice(_)
HandlesInStateDevice(rows) ==
  IF rows = <<>> THEN <<>>
  ELSE (IF Head(rows)[2] = "device"
          THEN <<(<<Handle(Head(rows)[1])>>)>> ELSE <<>>)
       \o HandlesInStateDevice(Tail(rows))

\* C16: for a listing made of the header line and N data lines with the
\* statuses device, offline and unauthorized, get_connected_devices returns
\* the handles of the lines in state `device`, in their order: the header
\* is left out, no data line is (the header alone gives the empty list).
C16_ListingParsed ==
  (call.fn = "get_connected_devices" /\ call.arg.kind = "ok") =>
    call.ret = HandlesInStateDevice(call.arg.rows)

\* a listing whose first line after the header is an offline device and
\* whose second one is in state `device`
C16_Witness ==
  /\ call.fn = "get_connected_devices"
  /\ call.arg.kind = "ok"
  /\ call.arg.rows = <<<<2, "offline">>, <<1, "device">>>>
  /\ call.ret = <<(<<Handle(1)>>)>>

\* the header alone
C16_WitnessHeaderOnly ==
  /\ call.fn = "get_connected_devices"
  /\ call.arg.kind = "ok"
  /\ call.arg.stdout = <<HEADER, "\n">>
  /\ call.ret = <<>>

\* C17: when the listing command fails (it did not run, or it ended with a
\* non-zero exit code, whatever it printed), get_connected_devices returns
\* the empty list without raising, and the tick is a tick without devices:
\* the baseline is cleared, the long delay is slept and nothing else is
\* done.
C17_ListingFailure ==
  (tick.kind # "idle" /\ tick.listing \in {"none", "nonzero"}) =>
    /\ tick.devices = <<>>
    /\ ~tick.raised
    /\ tick.kind = "nodev"
    /\ pc = "end"
    /\ previous_clipboard = None
    /\ tick.sleeps = <<no_connected_device_delay>>
    /\ tick.reads = <<>>
    /\ tick.pushes = <<>>
    /\ tick.pulls = <<>>

\* the listing command ended with a non-zero exit code in a tick that
\* started with a known baseline
C17_Witness ==
  /\ TickEnded
  /\ tick.listing = "nonzero"
  /\ tick.base0 # None

\* C18: a `cat` that ends with a non-zero exit code and `No such file or
\* directory` on stderr gives Success with an empty payload; a `cat` that
\* did not run, or ended with a non-zero exit code for another reason,
\* gives Error with an empty payload; a `cat` that ends with exit code 0
\* gives Success with the text of its output without the whitespace
\* around it.
C18_PullClassified ==
  call.fn = "read_from_device" =>
    LET result == call.arg
        failed == result.kind = "exit" /\ result.returncode # 0
        missing == \E i \in DOMAIN result.stderr :
                     result.stderr[i] = "No such file or directory"
    IN /\ (failed /\ missing) =>
            (call.ret.status = "SUCCESS" /\ call.ret.data = Empty)
       /\ (result.kind = "none" \/ (failed /\ ~missing)) =>
            (call.ret.status = "ERROR" /\ call.ret.data = Empty)
       /\ (result.kind = "exit" /\ result.returncode = 0) =>
            (call.ret.status = "SUCCESS" /\ call.ret.data = result.text)

\* the file is missing, and `cat` said so
C18_Witness ==
  /\ call.fn = "read_from_device"
  /\ call.arg.returncode = 1
  /\ call.arg.stderr = NO_SUCH_FILE
  /\ call.ret.status = "SUCCESS"

\* exit code 0 with whitespace around the text
C18_WitnessStripped ==
  /\ call.fn = "read_from_device"
  /\ call.arg.returncode = 0
  /\ call.arg.stdout = <<" ", ToString(1), "\n">>
  /\ call.ret.data = 1

\* the devices whose sentinel file the tick on record has asked to delete
Deleted == {tick.deletes[j] : j \in DOMAIN tick.deletes}

\* C19: a pull asks for the delete of the sentinel file exactly when its
\* read returned Success with a non-empty content, once, and never after
\* NoData, Error or an empty content; and the pull returns Success with
\* the content that was read whether the file is gone afterwards or, the
\* delete having failed, still there.
C19_DeleteIffContent ==
  /\ Cardinality(Deleted) = Len(tick.deletes)
  /\ \A i \in DOMAIN tick.pullres :
       /\ tick.pulls[i] \in Deleted <=>
            (tick.pullres[i][1] = "SUCCESS" /\ tick.pullres[i][2] # Empty)
       /\ tick.pulls[i] \in Deleted =>
            file[tick.pulls[i]] \in {NoFile, tick.pullres[i][2]}

\* the delete has failed: the file is still there after a pull that
\* returned its content; the pull of another device has returned NoData
C19_Witness ==
  /\ TickEnded
  /\ Len(tick.pullres) = 2
  /\ tick.pullres[1] = <<"SUCCESS", Empty>>
  /\ tick.deletes = <<tick.pulls[2]>>
  /\ file[tick.pulls[2]] # NoFile

\* the integers that follow a `result=` on some line of the output
ResultsOnLines(stdout) ==
  LET lines == split(stdout, "\n") IN
  UNION {{SignedRun(SubSeq(lines[l], i + 1, Len(lines[l]))) :
            i \in {j \in DOMAIN lines[l] : lines[l][j] = RESULT}} :
         l \in DOMAIN lines}
  \ {<<>>, <<MINUS>>}

\* C20: the push returns Success exactly when the broadcast ran, ended with
\* exit code 0 and printed a line with `result=` followed by an integer
\* that is -1; in every other case it returns Error with empty data, as a
\* value and not as an exception; the payload of a data="..." field is
\* returned on Success and only then.
C20_ReplyParsed ==
  call.fn = "write_to_device" =>
    LET result == call.arg
        success == /\ result.kind = "ok"
                   /\ \E g \in ResultsOnLines(result.stdout) : int(g) = 0 - 1
    IN /\ call.ret.status \in {"SUCCESS", "ERROR"}
       /\ call.ret.status = "SUCCESS" <=> success
       /\ call.ret.status = "ERROR" => call.ret.data = <<>>
       /\ call.ret.status = "SUCCESS" => call.ret.data = result.payload

\* the reply ends with `result=-`, and int() raises
C20_LoneMinus ==
  /\ call.fn = "write_to_device"
  /\ call.arg.kind = "ok"
  /\ call.arg.stdout = Reply(<<MINUS>>)
  /\ call.ret.status = "RAISE"

\* What does hold: a reply of two lines with one `result=`, on the second
\* line, with a digit after it, gives Success with the payload of its data
\* field when the integer is -1, and Error with empty data when not; a
\* broadcast that did not run or ended with a non-zero exit code gives
\* Error with empty data.
ReplyParsedOnSecondLine ==
  call.fn = "write_to_device" =>
    LET result == call.arg
        lines == split(result.stdout, "\n")
        standard == /\ Len(lines) >= 2
                    /\ \A i \in DOMAIN result.stdout :
                         result.stdout[i] = RESULT => i = 4
                    /\ Contains(lines[2], RESULT)
                    /\ ~ValueError(ResultGroup(result.stdout))
    IN /\ result.kind # "ok" =>
            call.ret = [status |-> "ERROR", data |-> <<>>]
       /\ (result.kind = "ok" /\ standard) =>
            IF int(ResultGroup(result.stdout)) = 0 - 1
              THEN call.ret = [status |-> "SUCCESS", data |-> result.payload]
              ELSE call.ret = [status |-> "ERROR", data |-> <<>>]

\* a reply like the one of the tests: result=-1 and a data field
ReplyWithData ==
  /\ call.fn = "write_to_device"
  /\ call.arg.stdout = Reply(<<MINUS, "1", COMMA, DATA, "x", QUOTE>>)
  /\ call.ret = [status |-> "SUCCESS", data |-> <<"x">>]

\* C21: a call of run_command runs one child process, whatever the way it
\* ends (no second try); a child that ran is returned with its exit code,
\* zero or not; an executable that is not found, a timeout and any other
\* Exception give None; nothing but an interrupt is raised to the caller.
C21_RunCommand ==
  call.fn = "run_command" =>
    LET first == call.arg.runs[1] IN
    /\ call.ret.spawned = 1
    /\ first.kind = "completed" =>
         /\ call.ret.status = "returned"
         /\ call.ret.value.kind = "completed"
         /\ call.ret.value.returncode = first.returncode
    /\ first.kind \in {"FileNotFoundError", "TimeoutExpired", "Exception"} =>
         /\ call.ret.status = "returned"
         /\ call.ret.value.kind = "None"
    /\ call.ret.status = "raised" => call.ret.value.kind = "KeyboardInterrupt"

\* the child exits with a non-zero code: a result, not None
C21_Witness ==
  /\ call.fn = "run_command"
  /\ call.arg.runs[1].kind = "completed"
  /\ call.arg.runs[1].returncode = 1
  /\ call.ret.status = "returned"
  /\ call.ret.value.returncode = 1

\* the child times out where a second one would have ended well: None
C21_WitnessTimeout ==
  /\ call.fn = "run_command"
  /\ call.arg.runs[1].kind = "TimeoutExpired"
  /\ call.arg.runs[2].kind = "completed"
  /\ call.arg.runs[2].returncode = 0
  /\ call.ret.value.kind = "None"
  /\ call.ret.spawned = 1

\* the tick on record has pushed text t to a device that returned Success
PushedOk(t) ==
  \E i \in DOMAIN tick.pushres :
    tick.pushres[i] = "SUCCESS" /\ tick.pushes[i][2] = t

\* the tick on record has pulled text t from a device, with Success
PulledOk(t) ==
  \E i \in DOMAIN tick.pullres : tick.pullres[i] = <<"SUCCESS", t>>

\* C22: when a tick is over the baseline is unknown, or it is what it was
\* when the tick began, or it is a text the tick has pushed to a device
\* that returned Success or has pulled from a device with Success: a text
\* whose pushes all failed, or whose push tick was aborted, is not left as
\* the baseline.
C22_BaselineJustified ==
  TickEnded =>
    \/ previous_clipboard = None
    \/ previous_clipboard = tick.base0
    \/ PushedOk(previous_clipboard)
    \/ PulledOk(previous_clipboard)

\* The baseline apart from the exception: C22 holds of every tick in which
\* no push has raised.
BaselineJustifiedUnlessRaised == tick.raised \/ C22_BaselineJustified

\* a tick has set the baseline to a text it pulled
BaselinePulled ==
  /\ TickEnded
  /\ previous_clipboard # None
  /\ previous_clipboard # tick.base0
  /\ PulledOk(previous_clipboard)

\* C23: the baseline is unknown (None) or a non-empty text, never the
\* empty text.
C23_BaselineNotEmpty == previous_clipboard # Empty

\* a tick has read an empty desktop and pulled an empty payload with
\* Success, and the baseline is still the text of before
C23_Witness ==
  /\ TickEnded
  /\ tick.kind = "pull"
  /\ tick.reads[1] = Empty
  /\ \E i \in DOMAIN tick.pullres : tick.pullres[i] = <<"SUCCESS", Empty>>
  /\ tick.base0 \in Text \ {Empty}
  /\ previous_clipboard = tick.base0

\* every desktop read of the tick on record has returned text t
ReadOnly(t) == \A i \in DOMAIN tick.reads : tick.reads[i] = t

\* C24 as stated: a text that a pull tick has written to the desktop is
\* not pushed to any device by a later tick, as long as every desktop read
\* returns that text and no tick clears the baseline.
C24_AsStated ==
  \A i \in DOMAIN pulled : ReadOnly(pulled[i]) => NotPushed(pulled[i])

\* C24, amended: ... and as long as no later pull tick has taken another
\* payload from a device.  The baseline is then still the pulled text.
C24_NoEcho ==
  pulled # <<>> =>
    LET t == pulled[Len(pulled)]
    IN /\ NotPushed(t)
       /\ tick.kind # "idle" => tick.base0 = t

\* a tick after a desktop update: the desktop holds the pulled text, two
\* devices are listed, and the tick pulls both and pushes nothing
C24_Witness ==
  /\ TickEnded
  /\ pulled # <<>>
  /\ tick.kind = "pull"
  /\ tick.reads = <<pulled[Len(pulled)], pulled[Len(pulled)]>>
  /\ Len(tick.pulls) = 2
  /\ tick.pushes = <<>>

\* a text pulled two updates ago is still what the desktop reads
PulledBefore ==
  /\ Len(pulled) = 2
  /\ tick.reads # <<>>
  /\ ReadOnly(pulled[1])

\* the device list of the tick on record is not empty and differs from the
\* list of the tick before, which was not empty either
ListChanged ==
  /\ prev_devices # <<>>
  /\ tick.devices # <<>>
  /\ tick.devices # prev_devices

\* device d is in list l
InList(d, l) == \E i \in DOMAIN l : l[i] = d

\* C25: a tick whose device list differs from the non-empty list of the
\* tick before pushes nothing when the desktop text it reads is the
\* baseline (or is empty): a device that has joined the list is pushed
\* the desktop text only by a tick that reads a text other than the
\* baseline, or finds the baseline cleared.
C25_NoPushOnListChange ==
  (/\ ListChanged
   /\ tick.reads # <<>>
   /\ tick.reads[1] = tick.base0 \/ tick.reads[1] = Empty) =>
    /\ tick.pushes = <<>>
    /\ tick.kind = "pull"

\* device 2 joins device 1; the desktop text is the baseline, and the tick
\* pulls both devices and pushes nothing
C25_Witness ==
  /\ TickEnded
  /\ prev_devices = <<1>>
  /\ tick.devices = <<1, 2>>
  /\ tick.base0 # None
  /\ tick.reads[1] = tick.base0
  /\ tick.pulls = <<1, 2>>
  /\ tick.pushes = <<>>

\* a device that has joined is pushed the desktop text in its first tick
\* when the baseline had been cleared
PushedOnJoin ==
  /\ ListChanged
  /\ ~InList(2, prev_devices)
  /\ tick.base0 = None
  /\ \E i \in DOMAIN tick.pushes : tick.pushes[i][1] = 2

\* C27: a pull writes the content of a device's file to the desktop only
\* if that content has not been written to the desktop, with effect,
\* before: a value is applied once, unless the device writes its file
\* anew.
C27_AppliedOnce ==
  [][(pc = "read_from_device" /\ Len(tick'.writes) > Len(tick.writes)) =>
       devices[idx] \notin applied]_vars

\* the content of a device's file has been written to the desktop, with
\* effect, and is still in the file (`rm` has not removed it), and the desktop holds
\* another text by now
AppliedAndKept ==
  /\ pc = "read_from_device"
  /\ devices[idx] \in applied
  /\ file[devices[idx]] \notin {NoFile, Empty}
  /\ desktop_clipboard # file[devices[idx]]

\* What does hold: a file that `rm` has removed is not applied again.
RemovedNotApplied ==
  \A d \in applied : file[d] \notin {NoFile, Empty}

\* C26: when a pull tick writes a device payload to the desktop, the
\* desktop content read in the pull step, which the payload was compared
\* with and replaces, is the baseline or is empty.
C26_ReplacesAccounted ==
  (tick.kind = "pull" /\ tick.writes # <<>>) =>
    (tick.reads[2] = tick.base0 \/ tick.reads[2] = Empty)

\* What does hold: ... when the two desktop reads of the tick have
\* returned the same text.
ReplacesAccountedSameReads ==
  (tick.kind = "pull" /\ tick.writes # <<>> /\ tick.reads[1] = tick.reads[2]) =>
    (tick.reads[2] = tick.base0 \/ tick.reads[2] = Empty)

\* a pull tick has replaced a desktop text that both reads returned
ReplacedBaseline ==
  /\ tick.kind = "pull"
  /\ tick.writes # <<>>
  /\ tick.reads[1] = tick.reads[2]
  /\ tick.reads[2] = tick.base0

\* the tick on record, as far as it has run, is a pull tick without a push
\* and without a desktop write, and sleeps connected_devices_delay, once,
\* at its end
QuietTick ==
  /\ tick.kind \in {"idle", "start", "pull"}
  /\ tick.pushes = <<>>
  /\ tick.writes = <<>>
  /\ tick.sleeps = IF TickEnded THEN <<connected_devices_delay>> ELSE <<>>

\* no device of the list has a value pending in its file
NothingPending ==
  \A i \in DOMAIN fixed : file[fixed[i]] \in {NoFile, Empty}

\* C28: with a fixed, non-empty device list, every command succeeding and
\* nobody copying, the loop comes to a point after which every tick is a
\* pull tick without a push and without a desktop write that sleeps
\* connected_devices_delay, and no value is pending on a device of the
\* list; ticks keep ending, each with that sleep.
C28_Quiescence ==
  /\ <>[](QuietTick /\ NothingPending)
  /\ []<>(TickEnded /\ SleptShortAtEnd)

\* a quiet tick over two devices, after a tick that took a payload from a
\* device: the baseline is the desktop content
C28_Witness ==
  /\ Quiet
  /\ TickEnded
  /\ QuietTick
  /\ NothingPending
  /\ pulled # <<>>
  /\ Len(tick.pulls) = 2
  /\ previous_clipboard = desktop

====
